---- MODULE Spec2Model ----
(***************************************************************************)
(* The frame loop of VulkanApp (src/src/main.cpp): the host thread walking *)
(* Run/Render call by call, and the device and the presentation engine it  *)
(* hands work to through vkQueueSubmit, vkAcquireNextImageKHR and          *)
(* vkQueuePresentKHR, from the outcome of the constructor to ~VulkanApp.    *)
(* Beside it, the construction of the context the loop runs on: the choice *)
(* of the physical device, the queue families and the swapchain support    *)
(* (src/src/api/vkcontext.cpp, src/src/api/vkutils.cpp), the image count of *)
(* the swapchain and the sizes of the per-slot vectors.                     *)
(***************************************************************************)
EXTENDS Integers, Sequences, FiniteSets, TLC

\* const int MAX_FRAMES_IN_FLIGHT = 2;
MAX_FRAMES_IN_FLIGHT == 2

\* Number of images of the swapchain (fixed by the surface, not by the app).
NumImages == 3

\* Number of loop iterations of Run the model follows.
MaxIter == 4

\* Most physical devices vkEnumeratePhysicalDevices reports.
MaxDevices == 2

\* Most queue families a physical device reports.
MaxFamilies == 2

\* Largest image count a surface reports in its capabilities.
MaxImageCount == 2

\* Largest value of MAX_FRAMES_IN_FLIGHT the constructor is followed with.
MaxSlots == 3

Slots  == 0 .. (MAX_FRAMES_IN_FLIGHT - 1)
Images == 0 .. (NumImages - 1)

VARIABLES
    pc,                        \* the call the host thread is about to make
    window,                    \* [shouldClose]: the flag glfwWindowShouldClose reads
    currentFrame,              \* uint32_t currentFrame
    frames,                    \* loop iterations of Run completed so far
    imageIndex,                \* the local imageIndex of Render
    inFlightFences,            \* slot -> "signaled" | "unsignaled"
    imageAvailableSemaphores,  \* slot -> "unsignaled" | "pending" | "signaled"
    renderFinishedSemaphores,  \* slot -> number of signals not yet waited for
    commandBuffers,            \* slot -> [state, commands]
    graphicsQueue,             \* submissions the device has not retired, in order
    presentQueue,              \* present requests not yet carried out, in order
    swapImages,                \* image -> "free" | "acquired" | "queued"
    submitCount,               \* successful vkQueueSubmit calls so far
    errorLog,                  \* the call VK_ASSERT reported, or "none"
    exception,                 \* the exception in flight: [type, what]
    vkResult,                  \* the VkResult the last API call returned
    created,                   \* the handles the constructor created, in order
    destroyed,                 \* the handles the destructor destroyed, in order
    deviceCount,               \* physicalDeviceCount of PickPhysicalDevice
    examined,                  \* devices PickPhysicalDevice has passed to IsDeviceSuitable
    device,                    \* what the device under examination reports of itself
    physicalDevice,            \* the device selected, by position; 0 is VK_NULL_HANDLE
    indices,                   \* static optional<QueueFamilyIndices> indices
    _support,                  \* static optional<SwapchainSupport> _support
    queueFamilies,             \* what FindQueueFamilies returned to IsDeviceSuitable
    swapchainDetails,          \* what FindSwapchainSupport returned last
    familyIndices,             \* VulkanContext::familyIndices
    imageCount,                \* swapchainInfo.minImageCount
    slotCounts                 \* sizes of the per-slot vectors of VulkanApp

\* The state of the construction of the context and of the slots.
contextVars == <<deviceCount, examined, device, physicalDevice, indices, _support,
                 queueFamilies, swapchainDetails, familyIndices, imageCount, slotCounts>>

vars == <<pc, window, currentFrame, frames, imageIndex, inFlightFences,
          imageAvailableSemaphores, renderFinishedSemaphores, commandBuffers,
          graphicsQueue, presentQueue, swapImages, submitCount, errorLog,
          exception, vkResult, created, contextVars, destroyed>>

hostVars   == <<pc, currentFrame, frames, imageIndex, errorLog, exception, vkResult,
                created, contextVars, destroyed>>
deviceVars == <<inFlightFences, imageAvailableSemaphores, renderFinishedSemaphores,
                commandBuffers, graphicsQueue, presentQueue, swapImages, submitCount>>

-----------------------------------------------------------------------------
(* Results of the API calls.                                               *)

\* What vkAcquireNextImageKHR can return; the first two deliver an image.
AcquireResults == {"VK_SUCCESS", "VK_SUBOPTIMAL_KHR",
                   "VK_ERROR_OUT_OF_DATE_KHR", "VK_ERROR_DEVICE_LOST"}
\* What vkQueuePresentKHR can return; the first two queue the present.
PresentResults == {"VK_SUCCESS", "VK_SUBOPTIMAL_KHR",
                   "VK_ERROR_OUT_OF_DATE_KHR", "VK_ERROR_DEVICE_LOST"}
\* vkBeginCommandBuffer, vkEndCommandBuffer, vkQueueSubmit.
CallResults    == {"VK_SUCCESS", "VK_ERROR_DEVICE_LOST"}

Delivers(result) == result \in {"VK_SUCCESS", "VK_SUBOPTIMAL_KHR"}

\* VK_ASSERT(x): if(x != VK_SUCCESS) { fprintf(stderr, ... #x ...); throw ... }
VK_ASSERT(result) == result = "VK_SUCCESS"

\* vkCreateCommandPool, vkAllocateCommandBuffers, vkCreateSemaphore, vkCreateFence.
CreateResults  == {"VK_SUCCESS", "VK_ERROR_OUT_OF_DEVICE_MEMORY"}

\* No exception is in flight.
NoException == [type |-> "none", what |-> ""]

\* throw std::runtime_error("Check error log"): the same for every call and
\* every result; the call is named on stderr only.
RuntimeError(call, result) == [type |-> "std::runtime_error", what |-> "Check error log"]

\* The throw of VK_ASSERT: nothing catches it, the process ends at the call.
Throw(call, result) ==
    /\ pc' = "terminated"
    /\ errorLog' = call
    /\ exception' = RuntimeError(call, result)

-----------------------------------------------------------------------------
(* Construction.                                                           *)

\* A Vulkan handle the application owns.
Handle(kind, slot) == [kind |-> kind, slot |-> slot]

\* The handles of slot i in the order the loops of CreateSyncObjects and of
\* ~VulkanApp go through them.
SlotHandles(i) ==
    << Handle("imageAvailableSemaphore", i),
       Handle("renderFinishedSemaphore", i),
       Handle("inFlightFence", i) >>

\* for(int i = 0; i < MAX_FRAMES_IN_FLIGHT; i++) over the first n slots.
RECURSIVE SyncHandles(_)
SyncHandles(n) == IF n = 0 THEN <<>> ELSE SyncHandles(n - 1) \o SlotHandles(n - 1)

\* CreateCommandPool(); AllocateCommandBuffers(); CreateSyncObjects();
ConstructionOrder ==
    <<Handle("commandPool", 0), Handle("commandBuffers", 0)>>
       \o SyncHandles(MAX_FRAMES_IN_FLIGHT)

\* The call that creates a handle.
CreateCall(handle) ==
    CASE handle.kind = "commandPool"    -> "vkCreateCommandPool"
      [] handle.kind = "commandBuffers" -> "vkAllocateCommandBuffers"
      [] handle.kind = "inFlightFence"  -> "vkCreateFence"
      [] OTHER                          -> "vkCreateSemaphore"

\* The handle has been created.
Exists(handle) == \E k \in 1 .. Len(created) : created[k] = handle

\* Variant: the flag is left out and the fences start unsignaled.
FenceCreateUnsignaled == "unsignaled"

\* fenceInfo.flags = VK_FENCE_CREATE_SIGNALED_BIT
FenceCreateState == "signaled"

\* CreateSyncObjects: one pair of semaphores and one fence per slot; a handle
\* no call has filled in is null.
CreateSyncObjects ==
    /\ imageAvailableSemaphores =
          [i \in Slots |-> IF Exists(Handle("imageAvailableSemaphore", i))
                           THEN "unsignaled" ELSE "null"]
    /\ renderFinishedSemaphores = [i \in Slots |-> 0]
    /\ inFlightFences =
          [i \in Slots |-> IF Exists(Handle("inFlightFence", i))
                           THEN FenceCreateState ELSE "null"]

\* AllocateCommandBuffers: the buffers start in the initial state.
AllocateCommandBuffers ==
    commandBuffers =
       [i \in Slots |-> [state    |-> IF Exists(Handle("commandBuffers", 0))
                                      THEN "initial" ELSE "null",
                         commands |-> <<>>]]

\* The constructor body: the creating calls succeed one after the other until
\* VK_ASSERT rejects the result of one; the throw leaves the constructor, and
\* the handles created so far stay as they are.
Constructor ==
    \E n \in 0 .. Len(ConstructionOrder), result \in CreateResults :
       /\ created = SubSeq(ConstructionOrder, 1, n)
       /\ VK_ASSERT(result) <=> (n = Len(ConstructionOrder))
       /\ vkResult = result
       /\ IF VK_ASSERT(result)
          THEN /\ pc = "run"
               /\ errorLog = "none"
               /\ exception = NoException
          ELSE /\ pc = "terminated"
               /\ errorLog = CreateCall(ConstructionOrder[n + 1])
               /\ exception = RuntimeError(errorLog, result)
       /\ AllocateCommandBuffers
       /\ CreateSyncObjects

\* std::optional: empty, or holding one value.
nullopt == <<>>
has_value(o) == o # nullopt
value(o) == o[1]

\* QueueFamilyIndices as default-constructed.
NoIndices == [graphics |-> nullopt, present |-> nullopt]

\* SwapchainSupport support{};
NoSupport == [formats |-> <<>>, presentModes |-> <<>>,
              capabilites |-> [minImageCount |-> 0, maxImageCount |-> 0]]

\* The per-slot vectors before the constructor of VulkanApp.
NoSlots == [commandBuffers |-> 0, imageAvailableSemaphores |-> 0,
            renderFinishedSemaphores |-> 0, inFlightFences |-> 0]

\* A device that reports nothing.
NullDevice == [extensions |-> FALSE, formats |-> <<>>, presentModes |-> <<>>,
               queueFamilies |-> <<>>]

\* Nothing of the context has been looked at: the statics are empty. The
\* frame loop reads none of this.
ContextUnset ==
    /\ deviceCount = 0
    /\ examined = 0
    /\ device = NullDevice
    /\ physicalDevice = 0
    /\ indices = nullopt
    /\ _support = nullopt
    /\ queueFamilies = NoIndices
    /\ swapchainDetails = NoSupport
    /\ familyIndices = NoIndices
    /\ imageCount = 0
    /\ slotCounts = NoSlots

\* The images of a swapchain of count images: all free; an index the
\* swapchain does not have is absent and never delivered.
SwapchainImages(count) == [m \in Images |-> IF m < count THEN "free" ELSE "absent"]

\* The state main hands to Run, with a swapchain of count images.
Start(count) ==
    /\ window = [shouldClose |-> FALSE]
    /\ currentFrame = 0
    /\ frames = 0
    /\ imageIndex = 0
    /\ Constructor
    /\ destroyed = <<>>
    /\ graphicsQueue = <<>>
    /\ presentQueue = <<>>
    /\ swapImages = SwapchainImages(count)
    /\ submitCount = 0
    /\ ContextUnset

Init == Start(NumImages)

-----------------------------------------------------------------------------
(* The host thread: Run and Render.                                        *)

\* while(!glfwWindowShouldClose(window)) { glfwPollEvents(); Render(); ... }
RunLoop ==
    /\ pc = "run"
    /\ \/ /\ window.shouldClose
          /\ pc' = "vkDeviceWaitIdle"
       \/ /\ ~window.shouldClose
          /\ frames < MaxIter
          /\ pc' = "vkWaitForFences"
    /\ UNCHANGED <<window, currentFrame, frames, imageIndex, errorLog, exception, vkResult,
                   created, contextVars, destroyed, deviceVars>>

\* Variant: the wait returns whether or not the fence is signaled.
WaitForFencesNoBlock ==
    /\ pc = "vkWaitForFences"
    /\ pc' = "vkResetFences"
    /\ vkResult' = "VK_SUCCESS"
    /\ UNCHANGED <<window, currentFrame, frames, imageIndex, errorLog, exception,
                   created, contextVars, destroyed, deviceVars>>

\* Variant: the wait is given the fence of the other slot.
WaitForFencesOther ==
    /\ pc = "vkWaitForFences"
    /\ inFlightFences[(currentFrame + 1) % MAX_FRAMES_IN_FLIGHT] = "signaled"
    /\ pc' = "vkResetFences"
    /\ vkResult' = "VK_SUCCESS"
    /\ UNCHANGED <<window, currentFrame, frames, imageIndex, errorLog, exception,
                   created, contextVars, destroyed, deviceVars>>

\* vkWaitForFences(device, 1, &inFlightFences[currentFrame], VK_TRUE, UINT64_MAX)
\* With the timeout UINT64_MAX the call blocks until the fence is signaled.
WaitForFences ==
    /\ pc = "vkWaitForFences"
    /\ inFlightFences[currentFrame] = "signaled"
    /\ pc' = "vkResetFences"
    /\ vkResult' = "VK_SUCCESS"
    /\ UNCHANGED <<window, currentFrame, frames, imageIndex, errorLog, exception,
                   created, contextVars, destroyed, deviceVars>>

\* Variant: the fence is not reset.
ResetFencesOmitted ==
    /\ pc = "vkResetFences"
    /\ pc' = "vkAcquireNextImageKHR"
    /\ vkResult' = "VK_SUCCESS"
    /\ UNCHANGED <<window, currentFrame, frames, imageIndex, errorLog, exception,
                   created, contextVars, destroyed, deviceVars>>

\* vkResetFences(device, 1, &inFlightFences[currentFrame])
ResetFences ==
    /\ pc = "vkResetFences"
    /\ inFlightFences' = [inFlightFences EXCEPT ![currentFrame] = "unsignaled"]
    /\ pc' = "vkAcquireNextImageKHR"
    /\ vkResult' = "VK_SUCCESS"
    /\ UNCHANGED <<window, currentFrame, frames, imageIndex, errorLog, exception,
                   created, contextVars, destroyed, imageAvailableSemaphores, renderFinishedSemaphores, commandBuffers,
                   graphicsQueue, presentQueue, swapImages, submitCount>>

\* uint32_t imageIndex = 0;
\* vkAcquireNextImageKHR(device, chain, UINT64_MAX,
\*                       imageAvailableSemaphores[currentFrame], VK_NULL_HANDLE, &imageIndex);
\* The result is discarded. A delivering result names a free image and arms the
\* semaphore; with no free image the call blocks. A failing result leaves
\* imageIndex and the semaphore as they were.
AcquireNextImage ==
    /\ pc = "vkAcquireNextImageKHR"
    /\ \E result \in AcquireResults :
          /\ vkResult' = result
          /\ \/ /\ Delivers(result)
                /\ \E m \in Images :
                      /\ swapImages[m] = "free"
                      /\ imageIndex' = m
                      /\ swapImages' = [swapImages EXCEPT ![m] = "acquired"]
                /\ imageAvailableSemaphores' =
                      [imageAvailableSemaphores EXCEPT ![currentFrame] = "pending"]
             \/ /\ ~Delivers(result)
                /\ imageIndex' = 0
                /\ UNCHANGED <<swapImages, imageAvailableSemaphores>>
    /\ pc' = "vkResetCommandBuffer"
    /\ UNCHANGED <<window, currentFrame, frames, errorLog, exception, created, contextVars, destroyed,
                   inFlightFences, renderFinishedSemaphores, commandBuffers, graphicsQueue,
                   presentQueue, submitCount>>

\* Variant: the buffer is reset and submitted without being recorded.
ResetCommandBufferSkipRecord ==
    /\ pc = "vkResetCommandBuffer"
    /\ commandBuffers' = [commandBuffers EXCEPT
                             ![currentFrame] = [state |-> "initial", commands |-> <<>>]]
    /\ pc' = "vkQueueSubmit"
    /\ vkResult' = "VK_SUCCESS"
    /\ UNCHANGED <<window, currentFrame, frames, imageIndex, errorLog, exception,
                   created, contextVars, destroyed, inFlightFences, imageAvailableSemaphores, renderFinishedSemaphores, graphicsQueue,
                   presentQueue, swapImages, submitCount>>

\* Variant: the reset of the command buffer looks at the close flag and leaves
\* the iteration when it is set.
ResetCommandBufferOrClose ==
    /\ pc = "vkResetCommandBuffer"
    /\ commandBuffers' = [commandBuffers EXCEPT
                             ![currentFrame] = [state |-> "initial", commands |-> <<>>]]
    /\ pc' = IF window.shouldClose THEN "vkDeviceWaitIdle" ELSE "RecordCommand"
    /\ vkResult' = "VK_SUCCESS"
    /\ UNCHANGED <<window, currentFrame, frames, imageIndex, errorLog, exception,
                   created, contextVars, destroyed, inFlightFences, imageAvailableSemaphores,
                   renderFinishedSemaphores, graphicsQueue, presentQueue, swapImages,
                   submitCount>>

\* vkResetCommandBuffer(commandBuffers[currentFrame], 0)
ResetCommandBuffer ==
    /\ pc = "vkResetCommandBuffer"
    /\ commandBuffers' = [commandBuffers EXCEPT
                             ![currentFrame] = [state |-> "initial", commands |-> <<>>]]
    /\ pc' = "RecordCommand"
    /\ vkResult' = "VK_SUCCESS"
    /\ UNCHANGED <<window, currentFrame, frames, imageIndex, errorLog, exception,
                   created, contextVars, destroyed, inFlightFences, imageAvailableSemaphores, renderFinishedSemaphores, graphicsQueue,
                   presentQueue, swapImages, submitCount>>

\* Variant: the render pass always begins on the framebuffer of image 0.
CommandsFirstFramebuffer(image) ==
    << [cmd |-> "vkCmdBeginRenderPass", arg |-> 0],
       [cmd |-> "vkCmdBindPipeline",    arg |-> 0],
       [cmd |-> "vkCmdSetViewport",     arg |-> 0],
       [cmd |-> "vkCmdSetScissor",      arg |-> 0],
       [cmd |-> "vkCmdDraw",            arg |-> 3],
       [cmd |-> "vkCmdEndRenderPass",   arg |-> 0] >>

\* The commands RecordCommand writes between vkBeginCommandBuffer and
\* vkEndCommandBuffer; arg is the framebuffer index of the render pass and the
\* vertex count of the draw.
Commands(image) ==
    << [cmd |-> "vkCmdBeginRenderPass", arg |-> image],
       [cmd |-> "vkCmdBindPipeline",    arg |-> 0],
       [cmd |-> "vkCmdSetViewport",     arg |-> 0],
       [cmd |-> "vkCmdSetScissor",      arg |-> 0],
       [cmd |-> "vkCmdDraw",            arg |-> 3],
       [cmd |-> "vkCmdEndRenderPass",   arg |-> 0] >>

\* RecordCommand(commandBuffers[currentFrame], imageIndex)
RecordCommand ==
    /\ pc = "RecordCommand"
    /\ \E begin \in CallResults, end \in CallResults :
          \/ /\ ~VK_ASSERT(begin)
             /\ vkResult' = begin
             /\ Throw("vkBeginCommandBuffer", begin)
             /\ UNCHANGED commandBuffers
          \/ /\ VK_ASSERT(begin)
             /\ ~VK_ASSERT(end)
             /\ vkResult' = end
             /\ Throw("vkEndCommandBuffer", end)
             /\ commandBuffers' = [commandBuffers EXCEPT ![currentFrame] =
                                      [state |-> "invalid", commands |-> Commands(imageIndex)]]
          \/ /\ VK_ASSERT(begin)
             /\ VK_ASSERT(end)
             /\ vkResult' = end
             /\ commandBuffers' = [commandBuffers EXCEPT ![currentFrame] =
                                      [state |-> "executable", commands |-> Commands(imageIndex)]]
             /\ pc' = "vkQueueSubmit"
             /\ UNCHANGED <<errorLog, exception>>
    /\ UNCHANGED <<window, currentFrame, frames, imageIndex, created, contextVars, destroyed,
                   inFlightFences, imageAvailableSemaphores, renderFinishedSemaphores,
                   graphicsQueue, presentQueue, swapImages, submitCount>>

\* Variant: the submission signals the semaphore of the other slot.
SubmitInfoOtherSignal(frame) ==
    [ waitSemaphore   |-> frame,
      waitDstStage    |-> "COLOR_ATTACHMENT_OUTPUT",
      commandBuffer   |-> frame,
      signalSemaphore |-> (frame + 1) % MAX_FRAMES_IN_FLIGHT,
      fence           |-> frame ]

\* VkSubmitInfo as Render fills it in, and the fence passed with it.
SubmitInfo(frame) ==
    [ waitSemaphore   |-> frame,
      waitDstStage    |-> "COLOR_ATTACHMENT_OUTPUT",
      commandBuffer   |-> frame,
      signalSemaphore |-> frame,
      fence           |-> frame ]

\* A submission in the queue: the submit info, the iteration that made it and
\* whether the device has passed its semaphore wait.
Submission(frame, iteration) ==
    [ info |-> SubmitInfo(frame), iteration |-> iteration, started |-> FALSE ]

\* VK_ASSERT(vkQueueSubmit(graphicsQueue, 1, &submitInfo, inFlightFences[currentFrame]))
QueueSubmit ==
    /\ pc = "vkQueueSubmit"
    /\ \E result \in CallResults :
          /\ vkResult' = result
          /\ \/ /\ VK_ASSERT(result)
                /\ graphicsQueue' = Append(graphicsQueue, Submission(currentFrame, frames))
                /\ submitCount' = submitCount + 1
                /\ pc' = "vkQueuePresentKHR"
                /\ UNCHANGED <<errorLog, exception>>
             \/ /\ ~VK_ASSERT(result)
                /\ Throw("vkQueueSubmit", result)
                /\ UNCHANGED <<graphicsQueue, submitCount>>
    /\ UNCHANGED <<window, currentFrame, frames, imageIndex, created, contextVars, destroyed, inFlightFences,
                   imageAvailableSemaphores, renderFinishedSemaphores, commandBuffers,
                   presentQueue, swapImages>>

\* VkPresentInfoKHR as Render fills it in: pWaitSemaphores = signalSemaphores,
\* pImageIndices = &imageIndex.
PresentInfo(frame, image, iteration) ==
    [ waitSemaphore |-> frame, image |-> image, iteration |-> iteration ]

\* VK_ASSERT(vkQueuePresentKHR(graphicsQueue, &presentInfo))
QueuePresent ==
    /\ pc = "vkQueuePresentKHR"
    /\ \E result \in PresentResults :
          /\ vkResult' = result
          /\ \/ /\ Delivers(result)
                /\ presentQueue' = Append(presentQueue,
                                          PresentInfo(currentFrame, imageIndex, frames))
                /\ swapImages' = [swapImages EXCEPT ![imageIndex] = "queued"]
             \/ /\ ~Delivers(result)
                /\ UNCHANGED <<presentQueue, swapImages>>
          /\ \/ /\ VK_ASSERT(result)
                /\ pc' = "advance"
                /\ UNCHANGED <<errorLog, exception>>
             \/ /\ ~VK_ASSERT(result)
                /\ Throw("vkQueuePresentKHR", result)
    /\ UNCHANGED <<window, currentFrame, frames, imageIndex, created, contextVars, destroyed, inFlightFences,
                   imageAvailableSemaphores, renderFinishedSemaphores, commandBuffers,
                   graphicsQueue, submitCount>>

\* Variant: the index is not wrapped.
NextFrameNoWrap(frame) == frame + 1

\* (currentFrame + 1) % MAX_FRAMES_IN_FLIGHT
NextFrame(frame) == (frame + 1) % MAX_FRAMES_IN_FLIGHT

\* currentFrame = (currentFrame + 1) % MAX_FRAMES_IN_FLIGHT;
Advance ==
    /\ pc = "advance"
    /\ currentFrame' = NextFrame(currentFrame)
    /\ frames' = frames + 1
    /\ pc' = "run"
    /\ UNCHANGED <<window, imageIndex, errorLog, exception, vkResult, created, contextVars, destroyed,
                   deviceVars>>

\* vkDeviceWaitIdle(context.device): returns once the queue holds no work.
DeviceWaitIdle ==
    /\ pc = "vkDeviceWaitIdle"
    /\ graphicsQueue = <<>>
    /\ pc' = "done"
    /\ UNCHANGED <<window, currentFrame, frames, imageIndex, errorLog, exception, vkResult,
                   created, contextVars, destroyed, deviceVars>>

\* What ~VulkanApp destroys, in order: the semaphores and the fence of every
\* slot, then the command pool (and with it the command buffers).
DestructionOrder == SyncHandles(MAX_FRAMES_IN_FLIGHT) \o <<Handle("commandPool", 0)>>

\* What the context owns below the device, in the order ~VulkanContext
\* destroys it: the framebuffers, the image views, the command buffer and its
\* pool, the objects of Pipeline::Destroy, the swapchain.
ContextChildren ==
    [m \in 1 .. NumImages |-> Handle("frameBuffer", m - 1)]
       \o [m \in 1 .. NumImages |-> Handle("imageView", m - 1)]
       \o <<Handle("context.commandBuffer", 0), Handle("context.commandPool", 0),
            Handle("renderPass", 0), Handle("pipelineLayout", 0), Handle("pipeline", 0),
            Handle("vertexShaderModule", 0), Handle("fragmentShaderModule", 0),
            Handle("swapchain", 0)>>

\* What ~VulkanContext destroys, in order (useValidationLayers is true).
ContextDestructionOrder ==
    <<Handle("debugMessenger", 0)>> \o ContextChildren
       \o <<Handle("device", 0), Handle("surface", 0), Handle("instance", 0)>>

\* ~VulkanApp(), run when main returns after Run: the body, then the
\* destructor of the member context.
Destructor ==
    /\ pc = "done"
    /\ destroyed' = DestructionOrder \o ContextDestructionOrder
    /\ pc' = "exit"
    /\ UNCHANGED <<window, currentFrame, frames, imageIndex, errorLog, exception, vkResult,
                   created, contextVars, deviceVars>>

\* The exception of a VK_ASSERT leaves main uncaught. Whether the stack is
\* unwound before std::terminate is implementation-defined. Where it is, an
\* exception of Render runs ~VulkanApp on the way out, without the
\* vkDeviceWaitIdle of Run; an exception of the constructor body runs the
\* destructors of the members only, so the context is destroyed and what the
\* body created is not.
Unwind ==
    /\ pc = "terminated"
    /\ destroyed = <<>>
    /\ destroyed' = (IF created = ConstructionOrder THEN DestructionOrder ELSE <<>>)
                        \o ContextDestructionOrder
    /\ UNCHANGED <<pc, window, currentFrame, frames, imageIndex, errorLog, exception,
                   vkResult, created, contextVars, deviceVars>>

-----------------------------------------------------------------------------
(* The window, the device and the presentation engine.                     *)

\* The user closes the window; glfwPollEvents sets the flag.
CloseWindow ==
    /\ ~window.shouldClose
    /\ pc \notin {"done", "exit", "terminated"}
    /\ window' = [window EXCEPT !.shouldClose = TRUE]
    /\ UNCHANGED <<hostVars, deviceVars>>

\* The image an acquire delivered becomes ready: the semaphore is signaled.
ImageReady(slot) ==
    /\ imageAvailableSemaphores[slot] = "pending"
    /\ imageAvailableSemaphores' = [imageAvailableSemaphores EXCEPT ![slot] = "signaled"]
    /\ UNCHANGED <<window, hostVars, inFlightFences, renderFinishedSemaphores,
                   commandBuffers, graphicsQueue, presentQueue, swapImages, submitCount>>

\* The device passes the semaphore wait of the next submission of the queue
\* (submissions start in the order of the calls) and unsignals the semaphore.
ExecuteSubmission(i) ==
    /\ i \in 1 .. Len(graphicsQueue)
    /\ ~graphicsQueue[i].started
    /\ \A j \in 1 .. (i - 1) : graphicsQueue[j].started
    /\ imageAvailableSemaphores[graphicsQueue[i].info.waitSemaphore] = "signaled"
    /\ imageAvailableSemaphores' =
          [imageAvailableSemaphores EXCEPT ![graphicsQueue[i].info.waitSemaphore] = "unsignaled"]
    /\ graphicsQueue' = [graphicsQueue EXCEPT ![i].started = TRUE]
    /\ UNCHANGED <<window, hostVars, inFlightFences, renderFinishedSemaphores,
                   commandBuffers, presentQueue, swapImages, submitCount>>

\* Signaling a binary semaphore; a signal on a semaphore whose earlier signal
\* was not waited for is counted, up to two.
Signal(count) == IF count < 2 THEN count + 1 ELSE 2

\* A retirement that leaves the fence of the submission unsignaled.
RetireSubmissionNoFence ==
    /\ graphicsQueue # <<>>
    /\ graphicsQueue[1].started
    /\ renderFinishedSemaphores' =
          [renderFinishedSemaphores EXCEPT ![graphicsQueue[1].info.signalSemaphore] = Signal(@)]
    /\ graphicsQueue' = Tail(graphicsQueue)
    /\ UNCHANGED <<window, hostVars, inFlightFences, imageAvailableSemaphores,
                   commandBuffers, presentQueue, swapImages, submitCount>>

\* The oldest submission retires: its semaphore and its fence are signaled.
RetireSubmission ==
    /\ graphicsQueue # <<>>
    /\ graphicsQueue[1].started
    /\ renderFinishedSemaphores' =
          [renderFinishedSemaphores EXCEPT ![graphicsQueue[1].info.signalSemaphore] = Signal(@)]
    /\ inFlightFences' = [inFlightFences EXCEPT ![graphicsQueue[1].info.fence] = "signaled"]
    /\ graphicsQueue' = Tail(graphicsQueue)
    /\ UNCHANGED <<window, hostVars, imageAvailableSemaphores, commandBuffers,
                   presentQueue, swapImages, submitCount>>

\* What a wait leaves of a semaphore with count signals: one signal is
\* consumed; of a semaphore signaled twice the second signal may be kept or lost.
Consume(count) == IF count = 2 THEN {0, 1} ELSE {0}

\* The presentation engine carries out the oldest present request once its
\* semaphore is signaled, and the image returns to the swapchain.
PresentImage ==
    /\ presentQueue # <<>>
    /\ renderFinishedSemaphores[presentQueue[1].waitSemaphore] > 0
    /\ \E left \in Consume(renderFinishedSemaphores[presentQueue[1].waitSemaphore]) :
          renderFinishedSemaphores' =
             [renderFinishedSemaphores EXCEPT ![presentQueue[1].waitSemaphore] = left]
    /\ swapImages' = [swapImages EXCEPT ![presentQueue[1].image] = "free"]
    /\ presentQueue' = Tail(presentQueue)
    /\ UNCHANGED <<window, hostVars, inFlightFences, imageAvailableSemaphores,
                   commandBuffers, graphicsQueue, submitCount>>

-----------------------------------------------------------------------------

Next ==
    \/ RunLoop
    \/ WaitForFences
    \/ ResetFences
    \/ AcquireNextImage
    \/ ResetCommandBuffer
    \/ RecordCommand
    \/ QueueSubmit
    \/ QueuePresent
    \/ Advance
    \/ DeviceWaitIdle
    \/ Destructor
    \/ Unwind
    \/ CloseWindow
    \/ \E slot \in Slots : ImageReady(slot)
    \/ \E i \in 1 .. MAX_FRAMES_IN_FLIGHT : ExecuteSubmission(i)
    \/ RetireSubmission
    \/ PresentImage

Spec == Init /\ [][Next]_vars

-----------------------------------------------------------------------------
(* The loop with every call succeeding, the window left open and a device  *)
(* and a presentation engine that do what they can.                        *)

\* The swapchain has any number of images from one up.
ProgressInit == \E count \in 1 .. NumImages : Start(count)

\* The call of this step returned VK_SUCCESS.
Succeeds == vkResult' = "VK_SUCCESS"

\* A step of the host in Run or Render.
HostStep ==
    \/ RunLoop
    \/ WaitForFences
    \/ ResetFences
    \/ AcquireNextImage /\ Succeeds
    \/ ResetCommandBuffer
    \/ RecordCommand /\ Succeeds
    \/ QueueSubmit /\ Succeeds
    \/ QueuePresent /\ Succeeds
    \/ Advance

ProgressNext ==
    \/ HostStep
    \/ \E slot \in Slots : ImageReady(slot)
    \/ \E i \in 1 .. MAX_FRAMES_IN_FLIGHT : ExecuteSubmission(i)
    \/ RetireSubmission
    \/ PresentImage

\* The host thread runs; the display delivers the image it promised; the
\* device starts and retires what is submitted; the presentation engine
\* carries out the presents whose semaphore is signaled.
ProgressSpec ==
    /\ ProgressInit
    /\ [][ProgressNext]_vars
    /\ WF_vars(HostStep)
    /\ WF_vars(\E slot \in Slots : ImageReady(slot))
    /\ WF_vars(\E i \in 1 .. MAX_FRAMES_IN_FLIGHT : ExecuteSubmission(i))
    /\ WF_vars(RetireSubmission)
    /\ WF_vars(PresentImage)

-----------------------------------------------------------------------------
(* The construction of the context: PickPhysicalDevice, CreateLogicalDevice *)
(* and CreateSwapchain of VulkanContext (src/src/api/vkcontext.cpp) with    *)
(* the helpers of VkUtils (src/src/api/vkutils.cpp), then the sizing of the *)
(* per-slot vectors of VulkanApp.                                           *)

\* A queue family: queueFlags & VK_QUEUE_GRAPHICS_BIT, and what
\* vkGetPhysicalDeviceSurfaceSupportKHR reports for it.
QueueFamily == [graphics : BOOLEAN, present : BOOLEAN]

\* What a physical device reports of itself for the surface: whether it has
\* every extension of DEVICE_EXTENSIONS, its surface formats, its present
\* modes and its queue families in index order.
PhysicalDevices ==
    [extensions    : BOOLEAN,
     formats       : {<<>>, <<"VK_FORMAT_B8G8R8A8_SRGB">>},
     presentModes  : {<<>>, <<"VK_PRESENT_MODE_FIFO_KHR">>},
     queueFamilies : UNION {[1 .. n -> QueueFamily] : n \in 0 .. MaxFamilies}]

\* VkSurfaceCapabilitiesKHR: maxImageCount is 0 when there is no upper
\* limit, and not below minImageCount otherwise.
SurfaceCapabilities ==
    {c \in [minImageCount : 1 .. MaxImageCount, maxImageCount : 0 .. MaxImageCount] :
        c.maxImageCount = 0 \/ c.maxImageCount >= c.minImageCount}

\* MathUtils::clamp
clamp(val, min, max) == IF val < min THEN min ELSE IF val > max THEN max ELSE val

\* QueueFamilyIndices::IsComplete
IsComplete(ind) == has_value(ind.graphics) /\ has_value(ind.present)

\* Variant: the loop over the families has no break.
RECURSIVE ScanNoBreak(_, _, _)
ScanNoBreak(families, i, _indices) ==
    IF i >= Len(families) THEN _indices
    ELSE ScanNoBreak(families, i + 1,
            [graphics |-> IF families[i + 1].graphics THEN <<i>> ELSE _indices.graphics,
             present  |-> IF families[i + 1].present THEN <<i>> ELSE _indices.present])

\* The loop of FindQueueFamilies from family i on, with _indices as filled in
\* so far: the family sets graphics and present where it has the capability,
\* and the loop breaks once both are set.
RECURSIVE Scan(_, _, _)
Scan(families, i, _indices) ==
    IF i >= Len(families) THEN _indices
    ELSE LET filled ==
               [graphics |-> IF families[i + 1].graphics THEN <<i>> ELSE _indices.graphics,
                present  |-> IF families[i + 1].present THEN <<i>> ELSE _indices.present]
         IN  IF IsComplete(filled) THEN filled ELSE Scan(families, i + 1, filled)

\* Variant: the families are searched on every call.
FindQueueFamiliesRecomputed(d) == Scan(d.queueFamilies, 0, NoIndices)

\* VkUtils::FindQueueFamilies: the value of the static when it has one, the
\* scan of the device's families otherwise. The caller stores it in indices.
FindQueueFamilies(d) ==
    IF has_value(indices) THEN value(indices) ELSE Scan(d.queueFamilies, 0, NoIndices)

\* VkUtils::FindSwapchainSupport: the value of the static when it has one,
\* what the device reports otherwise. The caller stores it in _support.
FindSwapchainSupport(d, capabilites) ==
    IF has_value(_support) THEN value(_support)
    ELSE [formats |-> d.formats, presentModes |-> d.presentModes,
          capabilites |-> capabilites]

\* The capabilities vkGetPhysicalDeviceSurfaceCapabilitiesKHR can report when
\* FindSwapchainSupport is called: the query is made only while the static is
\* empty.
Queried == IF has_value(_support) THEN {NoSupport.capabilites} ELSE SurfaceCapabilities

\* throw std::runtime_error(what)
ThrowError(what) ==
    /\ pc' = "terminated"
    /\ exception' = [type |-> "std::runtime_error", what |-> what]

\* PickPhysicalDevice up to the loop: the devices are counted.
EnumeratePhysicalDevices ==
    /\ pc = "PickPhysicalDevice"
    /\ \E count \in 0 .. MaxDevices :
          /\ deviceCount' = count
          /\ IF count = 0
             THEN ThrowError("No available Physical Devices with Vulkan support")
             ELSE pc' = "IsDeviceSuitable" /\ UNCHANGED exception
    /\ physicalDevice' = 0
    /\ UNCHANGED <<window, currentFrame, frames, imageIndex, errorLog, vkResult, created,
                   destroyed, deviceVars, examined, device, indices, _support,
                   queueFamilies, swapchainDetails, familyIndices, imageCount, slotCounts>>

\* One turn of the loop of PickPhysicalDevice: IsDeviceSuitable on the next
\* device, which is selected when the answer is true; the loop variable of a
\* device passed over ends with the turn; after the last device without a
\* selection the error is thrown.
IsDeviceSuitable ==
    /\ pc = "IsDeviceSuitable"
    /\ examined' = examined + 1
    /\ \E d \in PhysicalDevices, result \in CreateResults :
       \E capabilites \in IF d.extensions THEN Queried ELSE {NoSupport.capabilites} :
          LET found == FindQueueFamilies(d)
              extensionsSupported == d.extensions
              details == FindSwapchainSupport(d, capabilites)
              swapchainAdequate ==
                 /\ extensionsSupported
                 /\ details.formats # <<>>
                 /\ details.presentModes # <<>>
              suitable == extensionsSupported /\ swapchainAdequate /\ IsComplete(found)
          IN  /\ device' = IF VK_ASSERT(result) /\ suitable THEN d ELSE NullDevice
              /\ indices' = <<found>>
              /\ queueFamilies' = found
              /\ vkResult' = result
              /\ IF ~VK_ASSERT(result)
                 THEN /\ Throw("vkEnumerateDeviceExtensionProperties", result)
                      /\ UNCHANGED <<_support, swapchainDetails, physicalDevice>>
                 ELSE /\ IF extensionsSupported
                         THEN _support' = <<details>> /\ swapchainDetails' = details
                         ELSE UNCHANGED <<_support, swapchainDetails>>
                      /\ IF suitable
                         THEN /\ physicalDevice' = examined'
                              /\ pc' = "CreateLogicalDevice"
                              /\ UNCHANGED <<errorLog, exception>>
                         ELSE /\ UNCHANGED <<physicalDevice, errorLog>>
                              /\ IF examined' = deviceCount
                                 THEN ThrowError("No suitable Physical Devices found")
                                 ELSE UNCHANGED <<pc, exception>>
    /\ UNCHANGED <<window, currentFrame, frames, imageIndex, created, destroyed, deviceVars,
                   deviceCount, familyIndices, imageCount, slotCounts>>

\* CreateLogicalDevice: the families of the selected device are asked for,
\* and vkCreateDevice is called.
CreateLogicalDevice ==
    /\ pc = "CreateLogicalDevice"
    /\ familyIndices' = FindQueueFamilies(device)
    /\ indices' = <<familyIndices'>>
    /\ \E result \in CreateResults :
          /\ vkResult' = result
          /\ IF VK_ASSERT(result)
             THEN pc' = "CreateSwapchain" /\ UNCHANGED <<errorLog, exception>>
             ELSE Throw("vkCreateDevice", result)
    /\ UNCHANGED <<window, currentFrame, frames, imageIndex, created, destroyed, deviceVars,
                   deviceCount, examined, device, physicalDevice, _support, queueFamilies,
                   swapchainDetails, imageCount, slotCounts>>

\* CreateSwapchain: the support of the selected device is asked for, the
\* image count is clamp(minImageCount + 1, minImageCount, maxImageCount), and
\* vkCreateSwapchainKHR is called.
CreateSwapchain ==
    /\ pc = "CreateSwapchain"
    /\ \E capabilites \in Queried :
          swapchainDetails' = FindSwapchainSupport(device, capabilites)
    /\ _support' = <<swapchainDetails'>>
    /\ imageCount' = clamp(swapchainDetails'.capabilites.minImageCount + 1,
                           swapchainDetails'.capabilites.minImageCount,
                           swapchainDetails'.capabilites.maxImageCount)
    /\ \E result \in CreateResults :
          /\ vkResult' = result
          /\ IF VK_ASSERT(result)
             THEN pc' = "VulkanApp" /\ UNCHANGED <<errorLog, exception>>
             ELSE Throw("vkCreateSwapchainKHR", result)
    /\ UNCHANGED <<window, currentFrame, frames, imageIndex, created, destroyed, deviceVars,
                   deviceCount, examined, device, physicalDevice, indices, queueFamilies,
                   familyIndices, slotCounts>>

\* The sizes of the per-slot vectors after the constructor of VulkanApp with
\* MAX_FRAMES_IN_FLIGHT = n: the initializer list gives every vector n
\* elements, AllocateCommandBuffers resizes commandBuffers to 2 and allocates
\* commandBuffers.size() buffers, CreateSyncObjects resizes the other three
\* to n and creates one object per slot.
VulkanApp(n) ==
    [commandBuffers           |-> 2,
     imageAvailableSemaphores |-> n,
     renderFinishedSemaphores |-> n,
     inFlightFences           |-> n]

\* The constructor of VulkanApp after the context, for a configured number
\* of slots.
AllocateSlots ==
    /\ pc = "VulkanApp"
    /\ \E n \in 1 .. MaxSlots : slotCounts' = VulkanApp(n)
    /\ pc' = "constructed"
    /\ UNCHANGED <<window, currentFrame, frames, imageIndex, errorLog, exception, vkResult,
                   created, destroyed, deviceVars, deviceCount, examined, device,
                   physicalDevice, indices, _support, queueFamilies, swapchainDetails,
                   familyIndices, imageCount>>

\* Before PickPhysicalDevice: nothing is created, the statics are empty.
SetupInit ==
    /\ pc = "PickPhysicalDevice"
    /\ errorLog = "none"
    /\ exception = NoException
    /\ vkResult = "VK_SUCCESS"
    /\ window = [shouldClose |-> FALSE]
    /\ currentFrame = 0
    /\ frames = 0
    /\ imageIndex = 0
    /\ created = <<>>
    /\ destroyed = <<>>
    /\ AllocateCommandBuffers
    /\ CreateSyncObjects
    /\ graphicsQueue = <<>>
    /\ presentQueue = <<>>
    /\ swapImages = SwapchainImages(0)
    /\ submitCount = 0
    /\ ContextUnset

SetupNext ==
    \/ EnumeratePhysicalDevices
    \/ IsDeviceSuitable
    \/ CreateLogicalDevice
    \/ CreateSwapchain
    \/ AllocateSlots

SetupSpec == SetupInit /\ [][SetupNext]_vars

-----------------------------------------------------------------------------
(* The first call of FindQueueFamilies, on any device.                     *)

\* The device the first call is made for; nothing else has happened.
ScanInit ==
    /\ pc = "FindQueueFamilies"
    /\ errorLog = "none"
    /\ exception = NoException
    /\ vkResult = "VK_SUCCESS"
    /\ window = [shouldClose |-> FALSE]
    /\ currentFrame = 0
    /\ frames = 0
    /\ imageIndex = 0
    /\ created = <<>>
    /\ destroyed = <<>>
    /\ AllocateCommandBuffers
    /\ CreateSyncObjects
    /\ graphicsQueue = <<>>
    /\ presentQueue = <<>>
    /\ swapImages = SwapchainImages(0)
    /\ submitCount = 0
    /\ deviceCount = 1
    /\ examined = 0
    /\ device \in PhysicalDevices
    /\ physicalDevice = 0
    /\ indices = nullopt
    /\ _support = nullopt
    /\ queueFamilies = NoIndices
    /\ swapchainDetails = NoSupport
    /\ familyIndices = NoIndices
    /\ imageCount = 0
    /\ slotCounts = NoSlots

\* auto queueFamilies = VkUtils::FindQueueFamilies(device, surface);
FindQueueFamiliesCall ==
    /\ pc = "FindQueueFamilies"
    /\ queueFamilies' = FindQueueFamilies(device)
    /\ indices' = <<queueFamilies'>>
    /\ pc' = "found"
    /\ UNCHANGED <<window, currentFrame, frames, imageIndex, errorLog, exception, vkResult,
                   created, destroyed, deviceVars, deviceCount, examined, device,
                   physicalDevice, _support, swapchainDetails, familyIndices, imageCount,
                   slotCounts>>

ScanSpec == ScanInit /\ [][FindQueueFamiliesCall]_vars

-----------------------------------------------------------------------------
(* Frames in flight.                                                       *)

\* The submissions of a slot the device has not retired.
Unretired(slot) ==
    { i \in 1 .. Len(graphicsQueue) :
         \/ graphicsQueue[i].info.fence = slot
         \/ graphicsQueue[i].info.commandBuffer = slot }

C2_SlotIndexCycle ==
    [][ /\ currentFrame = frames % MAX_FRAMES_IN_FLIGHT
        /\ currentFrame' = frames' % MAX_FRAMES_IN_FLIGHT
        /\ currentFrame' # currentFrame =>
              /\ pc = "advance"
              /\ frames' = frames + 1
              /\ currentFrame' = (currentFrame + 1) % MAX_FRAMES_IN_FLIGHT
        /\ frames' # frames => currentFrame' # currentFrame ]_vars

\* The index has gone round the ring and is past slot 0 again.
C2_Witness ==
    /\ frames = MAX_FRAMES_IN_FLIGHT + 1
    /\ currentFrame = 1
    /\ pc = "run"

-----------------------------------------------------------------------------
(* The fence wait.                                                         *)

\* The calls of Render that follow the fence wait, up to the recording.
AfterWait == {"vkResetFences", "vkAcquireNextImageKHR", "vkResetCommandBuffer",
              "RecordCommand"}

C4_FirstWaitsDoNotBlock ==
    /\ (frames = 0 /\ pc = "run") =>
          \A slot \in Slots : inFlightFences[slot] = "signaled"
    /\ (frames < MAX_FRAMES_IN_FLIGHT /\ pc = "vkWaitForFences") =>
          /\ inFlightFences[currentFrame] = "signaled"
          /\ ENABLED WaitForFences

\* The second iteration is at its fence wait and the device has not even
\* started the submission of the first.
C4_Witness ==
    /\ frames = 1
    /\ pc = "vkWaitForFences"
    /\ Len(graphicsQueue) = 1
    /\ ~graphicsQueue[1].started

-----------------------------------------------------------------------------
(* The submission.                                                         *)

\* The number of submissions made once the iteration in progress has passed
\* vkQueueSubmit.
SubmittedInIteration ==
    IF \/ pc \in {"vkQueuePresentKHR", "advance"}
       \/ (pc = "terminated" /\ errorLog = "vkQueuePresentKHR")
    THEN 1 ELSE 0

\* C5: a Render call makes exactly one submission, and the submission of a slot
\* waits on that slot's imageAvailable semaphore at the color attachment output
\* stage, executes that slot's command buffer, and signals that slot's
\* renderFinished semaphore and fence.
C5_OneSubmissionPerRender ==
    /\ submitCount = frames + SubmittedInIteration
    /\ \A i \in 1 .. Len(graphicsQueue) :
          LET slot == graphicsQueue[i].iteration % MAX_FRAMES_IN_FLIGHT
          IN  graphicsQueue[i].info =
                 [ waitSemaphore   |-> slot,
                   waitDstStage    |-> "COLOR_ATTACHMENT_OUTPUT",
                   commandBuffer   |-> slot,
                   signalSemaphore |-> slot,
                   fence           |-> slot ]
    /\ \A slot \in Slots :
          renderFinishedSemaphores[slot] > 0 =>
             \E n \in 0 .. frames :
                /\ n % MAX_FRAMES_IN_FLIGHT = slot
                /\ n < submitCount
                /\ \A i \in 1 .. Len(graphicsQueue) : graphicsQueue[i].iteration # n

\* Both slots have a submission in flight and the second Render call is about
\* to present.
C5_Witness ==
    /\ pc = "vkQueuePresentKHR"
    /\ frames = 1
    /\ Len(graphicsQueue) = MAX_FRAMES_IN_FLIGHT
    /\ submitCount = MAX_FRAMES_IN_FLIGHT

-----------------------------------------------------------------------------
(* The present request.                                                    *)

\* C6: the present request of an iteration names the image that iteration's
\* acquire returned and waits on the semaphore that iteration's submission
\* signals, and an image is displayed only after the submission rendering into
\* it has retired.
C6_PresentAfterRender ==
    [][ /\ pc = "vkQueuePresentKHR" => swapImages[imageIndex] = "acquired"
        /\ \A i \in 1 .. Len(presentQueue) :
              presentQueue[i].waitSemaphore =
                 presentQueue[i].iteration % MAX_FRAMES_IN_FLIGHT
        /\ (presentQueue # <<>> /\ presentQueue' = Tail(presentQueue)) =>
              \A i \in 1 .. Len(graphicsQueue) :
                 graphicsQueue[i].iteration # presentQueue[1].iteration ]_vars

-----------------------------------------------------------------------------
(* The order of the calls of an iteration.                                 *)

\* The stage each position of the host belongs to, in the order the stages
\* are claimed to run: acquire, fence wait, record, submit, present, advance.
ClaimedStage ==
    [ vkAcquireNextImageKHR |-> 1,
      vkWaitForFences       |-> 2,
      vkResetCommandBuffer  |-> 3,
      RecordCommand         |-> 3,
      vkResetFences         |-> 4,
      vkQueueSubmit         |-> 4,
      vkQueuePresentKHR     |-> 5,
      advance               |-> 6 ]

\* The calls of an iteration in the order Render and Run make them.
RenderOrder ==
    << "vkWaitForFences", "vkResetFences", "vkAcquireNextImageKHR",
       "vkResetCommandBuffer", "RecordCommand", "vkQueueSubmit",
       "vkQueuePresentKHR", "advance" >>

InRender(at) == at \in DOMAIN ClaimedStage

Place(at) == CHOOSE i \in 1 .. Len(RenderOrder) : RenderOrder[i] = at

\* C7 as claimed: within an iteration the host never steps back in the order
\* acquire, fence wait, record, submit, present, advance.
C7_ClaimedOrder ==
    [][ (InRender(pc) /\ InRender(pc')) => ClaimedStage[pc] <= ClaimedStage[pc'] ]_vars

\* C7 as amended: within an iteration the host waits on the fence, resets it,
\* acquires, resets the command buffer, records, submits, presents and then
\* advances the index, each step following the one before; an iteration starts
\* with the fence wait.
C7_RenderOrder ==
    [][ /\ (InRender(pc) /\ InRender(pc') /\ pc' # pc) => Place(pc') = Place(pc) + 1
        /\ (pc = "run" /\ InRender(pc')) => pc' = "vkWaitForFences"
        /\ (InRender(pc) /\ pc' = "run") => pc = "advance" ]_vars

\* An iteration on slot 1 has gone through all its calls.
C7_Witness ==
    /\ pc = "advance"
    /\ currentFrame = 1
    /\ Len(presentQueue) > 0
    /\ presentQueue[Len(presentQueue)].iteration = frames

-----------------------------------------------------------------------------
(* The fence reset.                                                        *)

\* A submission that will signal the fence of the slot is in the queue.
FenceOutstanding(slot) ==
    \E i \in 1 .. Len(graphicsQueue) : graphicsQueue[i].info.fence = slot

\* C8 as claimed: the reset is followed at once by the submit, and a fence is
\* unsignaled outside the submit step only while a submission that will signal
\* it is outstanding.
C8_ClaimedResetBeforeSubmit ==
    [][ /\ (pc = "vkResetFences" /\ pc' # pc) => pc' = "vkQueueSubmit"
        /\ \A slot \in Slots :
              (inFlightFences[slot] = "unsignaled" /\ pc # "vkQueueSubmit")
                 => FenceOutstanding(slot) ]_vars

\* The host is between the fence reset and the return of vkQueueSubmit, or was
\* stopped there by a failed VK_ASSERT.
BetweenResetAndSubmit ==
    \/ pc \in {"vkAcquireNextImageKHR", "vkResetCommandBuffer", "RecordCommand",
               "vkQueueSubmit"}
    \/ /\ pc = "terminated"
       /\ errorLog \in {"vkBeginCommandBuffer", "vkEndCommandBuffer", "vkQueueSubmit"}

\* C8 as amended: the fence of the current slot is reset right after the wait
\* on it has returned, and stays unsignaled with no submission of the slot
\* outstanding through acquire, command buffer reset and record until the
\* submit; a fence is unsignaled only while a submission that will signal it is
\* outstanding or while the host is between the reset and the submit of that
\* slot.
C8_ResetAfterWait ==
    /\ pc = "vkResetFences" => inFlightFences[currentFrame] = "signaled"
    /\ pc \in {"vkAcquireNextImageKHR", "vkResetCommandBuffer", "RecordCommand",
               "vkQueueSubmit"} =>
          /\ inFlightFences[currentFrame] = "unsignaled"
          /\ ~FenceOutstanding(currentFrame)
    /\ \A slot \in Slots :
          inFlightFences[slot] = "unsignaled" =>
             \/ FenceOutstanding(slot)
             \/ (slot = currentFrame /\ BetweenResetAndSubmit)

\* The host records with the fence of its slot already reset and nothing
\* submitted that would signal it.
C8_Witness ==
    /\ pc = "RecordCommand"
    /\ frames >= MAX_FRAMES_IN_FLIGHT
    /\ inFlightFences[currentFrame] = "unsignaled"
    /\ ~FenceOutstanding(currentFrame)

-----------------------------------------------------------------------------
(* The semaphores.                                                         *)

\* C9: the imageAvailable semaphore handed to an acquire has no earlier signal
\* pending or unconsumed, and every submission still waiting on the semaphore
\* of its slot has had it armed by an acquire.
C9_ImageAvailableConsumedOnce ==
    /\ pc = "vkAcquireNextImageKHR" =>
          imageAvailableSemaphores[currentFrame] = "unsignaled"
    /\ \A i \in 1 .. Len(graphicsQueue) :
          ~graphicsQueue[i].started =>
             imageAvailableSemaphores[graphicsQueue[i].info.waitSemaphore] # "unsignaled"

\* C10: a renderFinished semaphore is never signaled again while its earlier
\* signal has not been consumed by the present request that waits for it.
C10_RenderFinishedConsumedOnce ==
    \A slot \in Slots : renderFinishedSemaphores[slot] <= 1

-----------------------------------------------------------------------------
(* Recoverable statuses.                                                   *)

\* The statuses that ask for the swapchain to be rebuilt; every other failing
\* status is fatal.
RecoverableResults == {"VK_SUBOPTIMAL_KHR", "VK_ERROR_OUT_OF_DATE_KHR"}

\* C11: a present that reports VK_SUBOPTIMAL_KHR does not stop the loop; the
\* host goes on to advance the slot index.
C11_SuboptimalPresentAdvances ==
    (errorLog = "vkQueuePresentKHR" /\ vkResult = "VK_SUBOPTIMAL_KHR") => pc # "terminated"

\* C12: VK_ERROR_OUT_OF_DATE_KHR from the acquire or the present neither ends
\* the loop nor leads to the destruction of the handles of the slots.
C12_OutOfDateKeepsSlots ==
    vkResult = "VK_ERROR_OUT_OF_DATE_KHR" => (pc # "terminated" /\ destroyed = <<>>)

\* C13: after an acquire that reported VK_ERROR_OUT_OF_DATE_KHR the host does
\* not go on to reset, record, submit and present in that iteration.
C13_OutOfDateAcquireSkipsRender ==
    pc = "vkResetCommandBuffer" => vkResult # "VK_ERROR_OUT_OF_DATE_KHR"

\* C14: a failing vkQueueSubmit ends the iteration before its present, and
\* the exception a recoverable status raises differs from the exception a
\* failing vkQueueSubmit raises.
C14_SubmitFailureIsFatalClass ==
    /\ (pc = "terminated" /\ errorLog = "vkQueueSubmit") =>
          \A k \in 1 .. Len(presentQueue) : presentQueue[k].iteration # frames
    /\ (pc = "terminated" /\ vkResult \in RecoverableResults) =>
          \A result \in CallResults \ {"VK_SUCCESS"} :
             exception # RuntimeError("vkQueueSubmit", result)

-----------------------------------------------------------------------------
(* Teardown.                                                               *)

\* C15: the handles of the slots are not destroyed while the fence of a slot
\* is unsignaled.
C15_DestroyRejectsUnsignaledFence ==
    [][destroyed' # destroyed => \A slot \in Slots : inFlightFences[slot] # "unsignaled"]_vars

\* C16: the destruction of the handles of the slots starts only after the
\* device has been drained: no submission is unretired at that point.
C16_DrainBeforeTeardown ==
    [][destroyed' # destroyed => graphicsQueue = <<>>]_vars

\* The device or the presentation engine can take a step.
DeviceStep ==
    \/ \E slot \in Slots : ImageReady(slot)
    \/ \E i \in 1 .. MAX_FRAMES_IN_FLIGHT : ExecuteSubmission(i)
    \/ RetireSubmission
    \/ PresentImage

\* C17: a host wait always comes to an end: when the device and the
\* presentation engine have nothing left to do, the host at vkWaitForFences
\* or vkAcquireNextImageKHR can still return from the call.
C17_WaitsAreBounded ==
    (pc \in {"vkWaitForFences", "vkAcquireNextImageKHR"} /\ ~ENABLED DeviceStep) =>
       (ENABLED WaitForFences \/ ENABLED AcquireNextImage)

-----------------------------------------------------------------------------
(* Recording.                                                              *)

\* The framebuffer a recorded command buffer renders to.
Framebuffer(slot) == commandBuffers[slot].commands[1].arg

C19_ImageAndSlotIndependent ==
    /\ pc = "vkQueueSubmit" =>
          /\ Framebuffer(currentFrame) = imageIndex
          /\ swapImages[imageIndex] = "acquired"
    /\ \A i \in 1 .. Len(graphicsQueue) :
          graphicsQueue[i].info =
             [ waitSemaphore   |-> graphicsQueue[i].iteration % MAX_FRAMES_IN_FLIGHT,
               waitDstStage    |-> "COLOR_ATTACHMENT_OUTPUT",
               commandBuffer   |-> graphicsQueue[i].iteration % MAX_FRAMES_IN_FLIGHT,
               signalSemaphore |-> graphicsQueue[i].iteration % MAX_FRAMES_IN_FLIGHT,
               fence           |-> graphicsQueue[i].iteration % MAX_FRAMES_IN_FLIGHT ]

-----------------------------------------------------------------------------
(* Construction failure.                                                   *)

\* C20: when vkCreateSemaphore or vkCreateFence fails in the constructor,
\* every handle the constructor created before it has been destroyed.
C20_FailedInitRollsBack ==
    (pc = "terminated" /\ errorLog \in {"vkCreateSemaphore", "vkCreateFence"}) =>
       \A k \in 1 .. Len(created) :
          \E j \in 1 .. Len(destroyed) : destroyed[j] = created[k]

-----------------------------------------------------------------------------
(* Fatal results and shutdown.                                             *)

\* The failing statuses that do not ask for the swapchain to be rebuilt.
FatalResults == {"VK_ERROR_DEVICE_LOST", "VK_ERROR_OUT_OF_DEVICE_MEMORY"}

\* C22: after a call of Render returned a fatal result the host executes
\* nothing more: it is terminated with the error propagated.
C22_FatalResultTerminates ==
    vkResult \in FatalResults => (pc = "terminated" /\ exception # NoException)

\* C23: the loop is left for the shutdown only from its head, with the close
\* flag set and every image an iteration acquired handed to a present, and an
\* iteration that reaches its end has presented the image it acquired.
C23_CloseAtIterationBoundary ==
    [][/\ (pc' = "vkDeviceWaitIdle" /\ pc # "vkDeviceWaitIdle") =>
             /\ pc = "run"
             /\ window.shouldClose
             /\ \A m \in Images : swapImages[m] # "acquired"
       /\ pc' = "advance" => \A m \in Images : swapImages'[m] # "acquired"]_vars

\* The window was closed inside an iteration, and the iteration has gone on
\* to present the image it acquired.
C23_Witness ==
    /\ pc = "advance"
    /\ window.shouldClose
    /\ swapImages[imageIndex] = "queued"
    /\ \E k \in 1 .. Len(presentQueue) :
          presentQueue[k].iteration = frames /\ presentQueue[k].image = imageIndex

-----------------------------------------------------------------------------
(* Swap images in use.                                                     *)

\* The image the i-th unretired submission renders to.
Target(i) == Framebuffer(graphicsQueue[i].info.commandBuffer)

\* C25: no two unretired submissions render to the same swap image, and no
\* unretired submission renders to an image for which the present request of
\* another iteration is still pending.
C25_ImagesNotShared ==
    /\ \A i, j \in 1 .. Len(graphicsQueue) : i # j => Target(i) # Target(j)
    /\ \A i \in 1 .. Len(graphicsQueue), k \in 1 .. Len(presentQueue) :
          presentQueue[k].image = Target(i) =>
             presentQueue[k].iteration = graphicsQueue[i].iteration

-----------------------------------------------------------------------------
(* Progress.                                                               *)

\* C24: with every call succeeding, the window open and the device and the
\* presentation engine doing what they can, an iteration that has reached
\* its fence wait reaches its index advance: the host is not blocked forever
\* in vkWaitForFences or in vkAcquireNextImageKHR, whatever the number of
\* swap images.
C24_Progress == (pc = "vkWaitForFences") ~> (pc = "advance")

\* The host ends an iteration on a slot used before, with a swapchain of
\* fewer images than slots.
C24_Witness ==
    /\ pc = "advance"
    /\ frames >= MAX_FRAMES_IN_FLIGHT
    /\ Cardinality({m \in Images : swapImages[m] # "absent"}) < MAX_FRAMES_IN_FLIGHT

-----------------------------------------------------------------------------
(* The construction of the context and of the slots.                       *)

\* C21: after the constructor, for whatever number of slots is configured,
\* there are as many command buffers as fences and as semaphores of each
\* kind, one of each per slot.
C21_OneOfEachPerSlot ==
    pc = "constructed" =>
       /\ slotCounts.commandBuffers = slotCounts.inFlightFences
       /\ slotCounts.imageAvailableSemaphores = slotCounts.inFlightFences
       /\ slotCounts.renderFinishedSemaphores = slotCounts.inFlightFences

\* The device's own answer to the tests of IsDeviceSuitable.
Suitable(d) ==
    /\ d.extensions
    /\ d.formats # <<>>
    /\ d.presentModes # <<>>
    /\ \E k \in 1 .. Len(d.queueFamilies) : d.queueFamilies[k].graphics
    /\ \E k \in 1 .. Len(d.queueFamilies) : d.queueFamilies[k].present

\* C26: once a static has a value no step changes it, and every call of
\* FindQueueFamilies and of FindSwapchainSupport returns that value.
C26_ComputedOnce ==
    [][/\ has_value(indices) => indices' = indices
       /\ has_value(_support) => _support' = _support
       /\ queueFamilies' # queueFamilies => queueFamilies' = value(indices')
       /\ familyIndices' # familyIndices => familyIndices' = value(indices')
       /\ swapchainDetails' # swapchainDetails => swapchainDetails' = value(_support')]_vars

\* A second device was asked for its families and the answer is the first
\* device's, though the scan of its own families gives another.
C26_Witness ==
    /\ examined = 2
    /\ physicalDevice = 2
    /\ queueFamilies = value(indices)
    /\ Scan(device.queueFamilies, 0, NoIndices) # queueFamilies

\* C27: the device selected passes every test of suitability on what it
\* reports of itself.
C27_SelectedIsSuitable == physicalDevice # 0 => Suitable(device)

\* The families of index 0 .. i of the device under examination have both
\* capabilities among them.
BothSeen(i) ==
    /\ \E k \in 1 .. i + 1 : device.queueFamilies[k].graphics
    /\ \E k \in 1 .. i + 1 : device.queueFamilies[k].present

\* The index the scan of the device under examination stops at: the first
\* one with both capabilities seen, the last one when there is none.
StopIndex ==
    IF \E i \in 0 .. Len(device.queueFamilies) - 1 : BothSeen(i)
    THEN CHOOSE i \in 0 .. Len(device.queueFamilies) - 1 :
            BothSeen(i) /\ \A j \in 0 .. i - 1 : ~BothSeen(j)
    ELSE Len(device.queueFamilies) - 1

\* C28: the first call leaves in the static, for each capability, the last
\* family up to the stop index that has it, nothing when there is none, and
\* the result is complete exactly when the device has a family of each kind.
C28_ScanStopsWhenComplete ==
    pc = "found" =>
       LET found == value(indices)
           families == device.queueFamilies
       IN  /\ \A i \in 0 .. StopIndex :
                /\ found.graphics = <<i>> <=>
                      /\ families[i + 1].graphics
                      /\ \A j \in i + 1 .. StopIndex : ~families[j + 1].graphics
                /\ found.present = <<i>> <=>
                      /\ families[i + 1].present
                      /\ \A j \in i + 1 .. StopIndex : ~families[j + 1].present
           /\ has_value(found.graphics) => found.graphics[1] \in 0 .. StopIndex
           /\ has_value(found.present) => found.present[1] \in 0 .. StopIndex
           /\ IsComplete(found) <=>
                 /\ \E k \in 1 .. Len(families) : families[k].graphics
                 /\ \E k \in 1 .. Len(families) : families[k].present

\* The scan stopped at family 0, which has both capabilities, before a
\* later family with the graphics capability.
C28_Witness ==
    /\ pc = "found"
    /\ Len(device.queueFamilies) = 2
    /\ device.queueFamilies[2].graphics
    /\ value(indices) = [graphics |-> <<0>>, present |-> <<0>>]

\* C29: the image count asked of vkCreateSwapchainKHR is not below
\* minImageCount, not above maxImageCount where there is a limit, and
\* minImageCount + 1 where that is allowed.
C29_ImageCountInRange ==
    pc \in {"VulkanApp", "constructed"} =>
       LET c == swapchainDetails.capabilites
       IN  /\ imageCount >= c.minImageCount
           /\ c.maxImageCount # 0 => imageCount <= c.maxImageCount
           /\ (c.maxImageCount = 0 \/ c.minImageCount + 1 <= c.maxImageCount) =>
                 imageCount = c.minImageCount + 1

-----------------------------------------------------------------------------
(* Teardown.                                                               *)

\* The position of a handle in the order of destruction, 0 when it has not
\* been destroyed.
Destroyed(handle) ==
    IF \E k \in 1 .. Len(destroyed) : destroyed[k] = handle
    THEN CHOOSE k \in 1 .. Len(destroyed) : destroyed[k] = handle
    ELSE 0

\* The objects created from the device that exist: what the constructor of
\* VulkanApp created (the command buffers go with their pool) and what the
\* context owns.
DeviceChildren ==
    {created[k] : k \in {j \in 1 .. Len(created) : created[j].kind # "commandBuffers"}}
       \cup {ContextChildren[k] : k \in 1 .. Len(ContextChildren)}

\* C30: when the device is destroyed every object created from it has been
\* destroyed before; the instance is destroyed after the device and the
\* surface; nothing is destroyed twice.
C30_ChildrenBeforeParents ==
    /\ Destroyed(Handle("device", 0)) # 0 =>
          \A child \in DeviceChildren :
             /\ Destroyed(child) # 0
             /\ Destroyed(child) < Destroyed(Handle("device", 0))
    /\ Destroyed(Handle("instance", 0)) # 0 =>
          /\ Destroyed(Handle("device", 0)) \in 1 .. Destroyed(Handle("instance", 0)) - 1
          /\ Destroyed(Handle("surface", 0)) \in 1 .. Destroyed(Handle("instance", 0)) - 1
    /\ \A j, k \in 1 .. Len(destroyed) : destroyed[j] = destroyed[k] => j = k

\* The same on the runs where main returns: the destructor has run after Run.
C30_OrderlyExit ==
    pc = "exit" => C30_ChildrenBeforeParents

====
